---------------------------- MODULE Spec2Model ----------------------------
(***************************************************************************)
(* A model of one run of the RAG pipeline of janoskaz/rag_wpp:             *)
(*                                                                         *)
(*   main_workflow.py       triage -> (branch) -> out_of_scope | retrieval *)
(*                          -> answer                                      *)
(*   retrieval_workflow.py  semantic_search -> bm25_search ->              *)
(*                          merge_and_rerank                               *)
(*   query_gemini.py        query_ai, the chat client with max_retries     *)
(*                                                                         *)
(* Numbers.  Raw reranker scores are integers that count multiples of      *)
(* 1e-6, so the epsilon of the normalisation is EPS = 1 unit and 1.0 is    *)
(* UNITS units.  A normalised score is kept as the exact fraction          *)
(* <<num, den>> the code divides; <<0, 0>> stands for "not set".           *)
(*                                                                         *)
(* The query text is not a variable: no node changes it and it reaches the *)
(* model only through what the collaborators answer, which is drawn        *)
(* nondeterministically in each action.                                    *)
(***************************************************************************)
EXTENDS Integers, Sequences, FiniteSets, TLC

VARIABLES
    pc,                  \* the node (or edge) the run is at
    query_type,          \* InputState.query_type
    semantic_docs,       \* RetrievalInputState.semantic_docs
    bm25_docs,           \* RetrievalInputState.bm25_docs
    retrieved_documents, \* RetrievalOutputState.retrieved_documents
    answer,              \* OutputState.answer
    attempts,            \* failed attempts of the chat call in flight
    scores,              \* merge_and_rerank_node: the reranker's raw scores
    context,             \* generate_answer_node: the page contents joined
    visited,             \* the nodes entered so far, in order
    invoked,             \* the collaborators called so far
    error,               \* which failure ended the run, "none" if none
    bm25_failed,         \* the except branch of bm25_search_node was taken
    collection           \* the ChromaDB collection, as the query of the run
                         \* sees it: per chunk its stored metadata and its
                         \* distance to the query

vars == <<pc, query_type, semantic_docs, bm25_docs, retrieved_documents,
          answer, attempts, scores, context, visited, invoked, error,
          bm25_failed, collection>>

-----------------------------------------------------------------------------
(* Bounds of the model *)

\* The most documents one retrieval method returns; stands for
\* NR_RETRIEVED_DOCS = 25, scaled down so that both methods together still
\* return more than NR_FINAL_DOCS.
MaxRetrieved == 3

\* The number of chunks in the collection.
NumChunks == 3

(* Program constants *)

NR_FINAL_DOCS == 5

MAX_RETRIES == 2

\* 1e-6 in score units, and 1.0 in score units.
EPS == 1

UNITS == 1000000

OUT_OF_SCOPE_MSG == "Your query is out of scope."

-----------------------------------------------------------------------------
(* Values *)

NoLabel == "<unset>"

NoAnswer == "<unset>"

NoContext == <<"<unset>">>

NoScore == <<0, 0>>

\* What the triage call can return: the two labels, the empty string that
\* query_ai returns for an empty response, and a text that is no label.
Labels == {"DATA_QUESTION", "OUT_OF_SCOPE", "", "Data question"}

\* What the answer call can return.
AnswerTexts == {"an answer", "", OUT_OF_SCOPE_MSG}

\* Raw scores the reranker can give: spreads of 1e-6, 0.999999 and 1.0.
RawScores == {-1, 0, UNITS - 1}

Chunks == 1 .. NumChunks

MinOf(a, b) == IF a <= b THEN a ELSE b

MaxOf(a, b) == IF a >= b THEN a ELSE b

Range(s) == {s[i] : i \in 1 .. Len(s)}

\* Sequences over S without repetition, of length at most n.
InjSeqs(S, n) ==
    UNION {{s \in [1 .. k -> S] : \A i, j \in 1 .. k : i # j => s[i] # s[j]}
           : k \in 0 .. n}

-----------------------------------------------------------------------------
(* Documents.  oid is the identity of the Python Document object: the nodes *)
(* pass the objects themselves along, so a document of the result is one of *)
(* the documents the adapters built.  The metadata keys the nodes of this   *)
(* model never read again (colbert_score, context_score, the stored chunk   *)
(* metadata) are left out.                                                  *)

\* A document is one record: oid, page_content and the keys of its metadata
\* dict.  vector_score and bm25_score are fractions <<num, den>>, distances
\* are integers in score units.

\* Stored metadata of a chunk: none (None and {} alike: `meta or {}`), or a
\* dict that, beside what ingestion writes, has every key the adapters set.
EmptyMeta == <<>>

ClashMeta ==
    [source |-> "wpp.md", chunk_index |-> 0, retrieval_method |-> "both",
     vector_score |-> <<1, 1>>, bm25_score |-> <<1, 1>>,
     crossencoder_score |-> <<1, 1>>]

Metas == {EmptyMeta, ClashMeta}

\* Distances the vector store can return (squared L2, the default space of
\* the collection, so never negative): 0, 0.5, 1.0 and 2.0.
Distances == {0, UNITS \div 2, UNITS, 2 * UNITS}

\* {**a, **b}: the keys of both, b's value where both have the key.
DictMerge(a, b) ==
    [k \in DOMAIN a \cup DOMAIN b |-> IF k \in DOMAIN b THEN b[k] ELSE a[k]]

\* VectorScore without the clip at 0.
VectorScoreNoClip(dist) == <<UNITS - dist, UNITS>>

\* vector_score = max(0, 1 - dist)
VectorScore(dist) == <<MaxOf(0, UNITS - dist), UNITS>>

\* bm25_score = 1.0 - (i / len(results)), i the 0-indexed rank
Bm25Score(i, m) == <<m - i, m>>

\* Document(page_content=chunk, metadata=md), as one record: the keys of md
\* beside oid and page_content.
Document(oid, chunk, md) ==
    IF "source" \in DOMAIN md
    THEN [oid |-> oid, page_content |-> chunk,
          source |-> md.source, chunk_index |-> md.chunk_index,
          vector_score |-> md.vector_score, bm25_score |-> md.bm25_score,
          retrieval_method |-> md.retrieval_method,
          crossencoder_score |-> md.crossencoder_score]
    ELSE [oid |-> oid, page_content |-> chunk,
          vector_score |-> md.vector_score, bm25_score |-> md.bm25_score,
          retrieval_method |-> md.retrieval_method,
          crossencoder_score |-> md.crossencoder_score]

\* VectorDoc with the stored metadata spread last: it overrides the keys the
\* adapter sets.
VectorDocMetaLast(i, chunk, meta, dist) ==
    Document(i, chunk,
             DictMerge([vector_score |-> VectorScore(dist),
                        bm25_score |-> <<0, 1>>,
                        retrieval_method |-> "vector",
                        crossencoder_score |-> NoScore],
                       meta))

\* semantic_search_node, the Document built for the i-th result (1-based):
\* metadata = {**(meta or {}), "vector_score": ..., "bm25_score": 0.0,
\* "retrieval_method": "vector"}.  crossencoder_score, which the dict does
\* not have before merge_and_rerank_node sets it, is NoScore until then
\* unless the stored metadata has the key.
VectorDoc(i, chunk, meta, dist) ==
    Document(i, chunk,
              DictMerge(DictMerge([crossencoder_score |-> NoScore], meta),
                        [vector_score |-> VectorScore(dist),
                         bm25_score |-> <<0, 1>>,
                         retrieval_method |-> "vector"]))

\* bm25_search_node, the Document built for the result at 0-indexed rank i
\* of m results: metadata = {**doc.metadata, "bm25_score": ...,
\* "vector_score": 0.0, "retrieval_method": "bm25"}.
Bm25Doc(base, i, m, chunk, meta) ==
    Document(base + i + 1, chunk,
              DictMerge(DictMerge([crossencoder_score |-> NoScore], meta),
                        [bm25_score |-> Bm25Score(i, m),
                         vector_score |-> <<0, 1>>,
                         retrieval_method |-> "bm25"]))

-----------------------------------------------------------------------------
(* merge_and_rerank_node, its pure parts *)

SeqMin(sc) == CHOOSE x \in Range(sc) : \A y \in Range(sc) : x <= y

SeqMax(sc) == CHOOSE x \in Range(sc) : \A y \in Range(sc) : x >= y

\* Normalize without the epsilon in the divisor.
NormalizeNoEps(sc) ==
    LET mn == SeqMin(sc)
        mx == SeqMax(sc)
    IN  IF mx > mn
        THEN [i \in 1 .. Len(sc) |-> <<sc[i] - mn, mx - mn>>]
        ELSE [i \in 1 .. Len(sc) |-> <<1, 2>>]

\* Normalize without the branch for equal scores: the ratio is computed
\* for every batch.
NormalizeAlwaysRatio(sc) ==
    LET mn == SeqMin(sc)
        mx == SeqMax(sc)
    IN  [i \in 1 .. Len(sc) |-> <<sc[i] - mn, mx - mn + EPS>>]

\* (scores - min) / (max - min + 1e-6) if max > min, else 0.5 everywhere.
Normalize(sc) ==
    LET mn == SeqMin(sc)
        mx == SeqMax(sc)
    IN  IF mx > mn
        THEN [i \in 1 .. Len(sc) |-> <<sc[i] - mn, mx - mn + EPS>>]
        ELSE [i \in 1 .. Len(sc) |-> <<1, 2>>]

\* doc.metadata["crossencoder_score"] = float(normalized_scores[i])
StoreScores(docs, norm) ==
    [i \in 1 .. Len(docs) |-> [docs[i] EXCEPT !.crossencoder_score = norm[i]]]

\* zip(scores, all_docs)
Zip(sc, docs) == [i \in 1 .. MinOf(Len(sc), Len(docs)) |-> <<sc[i], docs[i]>>]

\* InsertDesc without reverse=True: the list comes out ascending.
RECURSIVE InsertAscending(_, _)
InsertAscending(sorted, p) ==
    IF sorted = <<>> THEN <<p>>
    ELSE IF Head(sorted)[1] <= p[1]
         THEN <<Head(sorted)>> \o InsertAscending(Tail(sorted), p)
         ELSE <<p>> \o sorted

\* InsertDesc of a sort that is not stable: a pair goes in front of the
\* pairs with an equal key.
RECURSIVE InsertUnstable(_, _)
InsertUnstable(sorted, p) ==
    IF sorted = <<>> THEN <<p>>
    ELSE IF Head(sorted)[1] > p[1]
         THEN <<Head(sorted)>> \o InsertUnstable(Tail(sorted), p)
         ELSE <<p>> \o sorted

\* The place of pair p in a list sorted by key, descending: behind every
\* pair whose key is not smaller (sorted(..., reverse=True) keeps the input
\* order of pairs with equal keys).
RECURSIVE InsertDesc(_, _)
InsertDesc(sorted, p) ==
    IF sorted = <<>> THEN <<p>>
    ELSE IF Head(sorted)[1] >= p[1]
         THEN <<Head(sorted)>> \o InsertDesc(Tail(sorted), p)
         ELSE <<p>> \o sorted

RECURSIVE SortFrom(_, _)
SortFrom(acc, rest) ==
    IF rest = <<>> THEN acc
    ELSE SortFrom(InsertDesc(acc, Head(rest)), Tail(rest))

\* sorted(zip(scores, all_docs), key=lambda x: x[0], reverse=True)
SortedByScore(pairs) == SortFrom(<<>>, pairs)

\* [doc for _, doc in ...]
DocsOf(pairs) == [i \in 1 .. Len(pairs) |-> pairs[i][2]]

\* IsEmptyBatch without the early return: the reranker is called on any
\* batch.
NeverEmptyBatch(all_docs) == FALSE

\* if not all_docs
IsEmptyBatch(all_docs) == all_docs = <<>>

\* TopDocs with the slice one too long.
TopDocsOneMore(docs) == SubSeq(docs, 1, MinOf(NR_FINAL_DOCS + 1, Len(docs)))

\* sorted_docs[:NR_FINAL_DOCS]
TopDocs(docs) == SubSeq(docs, 1, MinOf(NR_FINAL_DOCS, Len(docs)))

\* The documents merge_and_rerank_node returns for a batch whose documents
\* already carry their normalised scores.
Rerank(all_docs, sc) == TopDocs(DocsOf(SortedByScore(Zip(sc, all_docs))))

-----------------------------------------------------------------------------
(* The run *)

\* The collection of the run: chunk i is the i-th nearest to the query, at
\* the distances 0, 0.5, 1.0, 1.5, ...; every second chunk has stored
\* metadata that clashes with the keys the adapters set.
StoredCollection ==
    [c \in Chunks |->
        [metadata |-> IF c % 2 = 0 THEN ClashMeta ELSE EmptyMeta,
         distance |-> (c - 1) * (UNITS \div 2)]]

\* Every collection of the model: metadata and distances of any kind, the
\* chunks numbered from the nearest to the farthest.
Collections ==
    {col \in [Chunks -> [metadata : Metas, distance : Distances]] :
        \A c \in Chunks :
            c + 1 \in Chunks => col[c].distance <= col[c + 1].distance}

Init ==
    /\ pc = "triage"
    /\ collection = StoredCollection
    /\ query_type = NoLabel
    /\ semantic_docs = <<>>
    /\ bm25_docs = <<>>
    /\ retrieved_documents = <<>>
    /\ answer = NoAnswer
    /\ attempts = 0
    /\ scores = <<>>
    /\ context = NoContext
    /\ visited = <<"triage">>
    /\ invoked = {}
    /\ error = "none"
    /\ bm25_failed = FALSE

\* An exception leaves the graph: the run ends with no output, and the
\* state of the run is gone with it.
Abort(stage) ==
    /\ pc' = "raised"
    /\ error' = stage
    /\ semantic_docs' = <<>>
    /\ bm25_docs' = <<>>
    /\ retrieved_documents' = <<>>
    /\ scores' = <<>>
    /\ UNCHANGED <<query_type, answer, visited, bm25_failed>>

\* context = "\n\n".join(doc.page_content for doc in retrieved_documents)
ContextOf(docs) == [i \in 1 .. Len(docs) |-> docs[i].page_content]

\* ChatRetry of a client that retries once more than max_retries.
ChatRetryOnceMore ==
    /\ pc \in {"triage", "answer"}
    /\ UNCHANGED collection
    /\ attempts < MAX_RETRIES + 1
    /\ attempts' = attempts + 1
    /\ invoked' = invoked \cup {IF pc = "triage" THEN "triage_llm" ELSE "answer_llm"}
    /\ context' = IF pc = "answer" THEN ContextOf(retrieved_documents)
                  ELSE context
    /\ UNCHANGED <<pc, query_type, semantic_docs, bm25_docs,
                   retrieved_documents, answer, scores, visited, error,
                   bm25_failed>>

\* chat.invoke fails and the client, built with max_retries, tries again.
ChatRetry ==
    /\ pc \in {"triage", "answer"}
    /\ UNCHANGED collection
    /\ attempts < MAX_RETRIES
    /\ attempts' = attempts + 1
    /\ invoked' = invoked \cup {IF pc = "triage" THEN "triage_llm" ELSE "answer_llm"}
    /\ context' = IF pc = "answer" THEN ContextOf(retrieved_documents)
                  ELSE context
    /\ UNCHANGED <<pc, query_type, semantic_docs, bm25_docs,
                   retrieved_documents, answer, scores, visited, error,
                   bm25_failed>>

\* triage_node, the call returns: query_type is what query_ai returned.
triage_node ==
    /\ pc = "triage"
    /\ UNCHANGED collection
    /\ \E label \in Labels : query_type' = label
    /\ pc' = "branch"
    /\ attempts' = 0
    /\ invoked' = invoked \cup {"triage_llm"}
    /\ UNCHANGED <<semantic_docs, bm25_docs, retrieved_documents, answer,
                   scores, context, visited, error, bm25_failed>>

\* triage_node, the call raises (retries used up, or an error that is not
\* retried).
triage_raises ==
    /\ pc = "triage"
    /\ UNCHANGED collection
    /\ invoked' = invoked \cup {"triage_llm"}
    /\ UNCHANGED <<attempts, context>>
    /\ Abort("triage")

\* Branch with the two targets of the mapping exchanged.
BranchSwapped ==
    /\ pc = "branch"
    /\ UNCHANGED collection
    /\ IF query_type = "DATA_QUESTION"
       THEN /\ pc' = "out_of_scope"
            /\ visited' = Append(visited, "out_of_scope")
            /\ UNCHANGED <<error, semantic_docs, bm25_docs,
                           retrieved_documents, scores, query_type, answer,
                           context, bm25_failed>>
       ELSE IF query_type = "OUT_OF_SCOPE"
       THEN /\ pc' = "semantic_search"
            /\ visited' = visited \o <<"retrieval", "semantic_search">>
            /\ UNCHANGED <<error, semantic_docs, bm25_docs,
                           retrieved_documents, scores, query_type, answer,
                           context, bm25_failed>>
       ELSE Abort("branch") /\ UNCHANGED context
    /\ UNCHANGED <<attempts, invoked>>

\* Branch with a default: a label that is not DATA_QUESTION is routed to
\* out_of_scope.
BranchWithDefault ==
    /\ pc = "branch"
    /\ UNCHANGED collection
    /\ IF query_type = "DATA_QUESTION"
       THEN /\ pc' = "semantic_search"
            /\ visited' = visited \o <<"retrieval", "semantic_search">>
       ELSE /\ pc' = "out_of_scope"
            /\ visited' = Append(visited, "out_of_scope")
    /\ UNCHANGED <<error, semantic_docs, bm25_docs, retrieved_documents,
                   scores, query_type, answer, context, bm25_failed,
                   attempts, invoked>>

\* The conditional edge after triage: the label is looked up in the
\* mapping of the two known labels; any other label is a KeyError.
Branch ==
    /\ pc = "branch"
    /\ UNCHANGED collection
    /\ IF query_type = "OUT_OF_SCOPE"
       THEN /\ pc' = "out_of_scope"
            /\ visited' = Append(visited, "out_of_scope")
            /\ UNCHANGED <<error, semantic_docs, bm25_docs,
                           retrieved_documents, scores, query_type, answer,
                           context, bm25_failed>>
       ELSE IF query_type = "DATA_QUESTION"
       THEN /\ pc' = "semantic_search"
            /\ visited' = visited \o <<"retrieval", "semantic_search">>
            /\ UNCHANGED <<error, semantic_docs, bm25_docs,
                           retrieved_documents, scores, query_type, answer,
                           context, bm25_failed>>
       ELSE Abort("branch") /\ UNCHANGED context
    /\ UNCHANGED <<attempts, invoked>>

\* out_of_scope_node, then the edge to END.
out_of_scope_node ==
    /\ pc = "out_of_scope"
    /\ UNCHANGED collection
    /\ answer' = OUT_OF_SCOPE_MSG
    /\ pc' = "END"
    /\ UNCHANGED <<query_type, semantic_docs, bm25_docs, retrieved_documents,
                   attempts, scores, context, visited, invoked, error,
                   bm25_failed>>

\* semantic_search_node: collection.query returns the k nearest chunks
\* (chunk i is the i-th nearest to the query), or raises.
semantic_search_node ==
    /\ pc = "semantic_search"
    /\ UNCHANGED collection
    /\ invoked' = invoked \cup {"vector_index"}
    /\ \/ /\ \E k \in 0 .. MinOf(MaxRetrieved, NumChunks) :
               semantic_docs' =
                   [i \in 1 .. k |->
                       VectorDoc(i, i, collection[i].metadata,
                                 collection[i].distance)]
          /\ pc' = "bm25_search"
          /\ visited' = Append(visited, "bm25_search")
          /\ UNCHANGED <<query_type, bm25_docs, retrieved_documents, answer,
                         scores, context, error, bm25_failed>>
       \/ Abort("vector_index") /\ UNCHANGED context
    /\ UNCHANGED attempts

\* bm25_search_node, the try block runs through: the top results of the
\* lexical ranking, each chunk at most once.
bm25_search_node ==
    /\ pc = "bm25_search"
    /\ UNCHANGED collection
    /\ invoked' = invoked \cup {"bm25"}
    /\ \E results \in InjSeqs(Chunks, MaxRetrieved) :
          bm25_docs' = [j \in 1 .. Len(results) |->
                          Bm25Doc(Len(semantic_docs), j - 1, Len(results),
                                  results[j],
                                  collection[results[j]].metadata)]
    /\ pc' = "merge_and_rerank"
    /\ visited' = Append(visited, "merge_and_rerank")
    /\ UNCHANGED <<query_type, semantic_docs, retrieved_documents, answer,
                   attempts, scores, context, error, bm25_failed>>

\* bm25_search_node without the try/except: the error leaves the node.
bm25_search_propagates ==
    /\ pc = "bm25_search"
    /\ UNCHANGED collection
    /\ invoked' = invoked \cup {"bm25"}
    /\ bm25_failed' = TRUE
    /\ pc' = "raised"
    /\ error' = "bm25"
    /\ semantic_docs' = <<>>
    /\ bm25_docs' = <<>>
    /\ UNCHANGED <<query_type, retrieved_documents, answer, attempts, scores,
                   context, visited>>

\* bm25_search_node, the except branch: the error is printed and bm25_docs
\* is the empty list.
bm25_search_fails ==
    /\ pc = "bm25_search"
    /\ UNCHANGED collection
    /\ invoked' = invoked \cup {"bm25"}
    /\ bm25_docs' = <<>>
    /\ bm25_failed' = TRUE
    /\ pc' = "merge_and_rerank"
    /\ visited' = Append(visited, "merge_and_rerank")
    /\ UNCHANGED <<query_type, semantic_docs, retrieved_documents, answer,
                   attempts, scores, context, error>>

\* merge_and_rerank_node.  The scores are stored on the Document objects
\* themselves, which semantic_docs and bm25_docs also hold.
merge_and_rerank_node ==
    /\ pc = "merge_and_rerank"
    /\ UNCHANGED collection
    /\ LET all_docs == semantic_docs \o bm25_docs
           n == Len(all_docs)
       IN  IF IsEmptyBatch(all_docs)
           THEN /\ retrieved_documents' = <<>>
                /\ pc' = "retrieval_end"
                /\ UNCHANGED <<query_type, semantic_docs, bm25_docs, answer,
                               scores, context, visited, invoked, error,
                               bm25_failed>>
           ELSE /\ invoked' = invoked \cup {"reranker"}
                /\ \/ \E sc \in [1 .. n -> RawScores] :
                        LET scored == StoreScores(all_docs, Normalize(sc))
                        IN  /\ scores' = sc
                            /\ retrieved_documents' = Rerank(scored, sc)
                            /\ semantic_docs' =
                                 SubSeq(scored, 1, Len(semantic_docs))
                            /\ bm25_docs' =
                                 SubSeq(scored, Len(semantic_docs) + 1, n)
                        /\ pc' = "retrieval_end"
                        /\ UNCHANGED <<query_type, answer, context, visited,
                                       error, bm25_failed>>
                   \/ Abort("reranker") /\ UNCHANGED context
    /\ UNCHANGED attempts

\* retrieval: retrieval_app.invoke returns the sub-graph's output state,
\* RetrievalOutputState, which has no semantic_docs and no bm25_docs; then
\* the edge to answer.
retrieval ==
    /\ pc = "retrieval_end"
    /\ UNCHANGED collection
    /\ semantic_docs' = <<>>
    /\ bm25_docs' = <<>>
    /\ scores' = <<>>
    /\ pc' = "answer"
    /\ visited' = Append(visited, "answer")
    /\ UNCHANGED <<query_type, retrieved_documents, answer, attempts, context,
                   invoked, error, bm25_failed>>

\* generate_answer_node, the call returns, then the edge to END: the output
\* of the run is OutputState, the answer alone.
generate_answer_node ==
    /\ pc = "answer"
    /\ UNCHANGED collection
    /\ context' = ContextOf(retrieved_documents)
    /\ \E text \in AnswerTexts : answer' = text
    /\ invoked' = invoked \cup {"answer_llm"}
    /\ attempts' = 0
    /\ pc' = "END"
    /\ retrieved_documents' = <<>>
    /\ UNCHANGED <<query_type, semantic_docs, bm25_docs, scores, visited,
                   error, bm25_failed>>

\* generate_answer_node, the call raises.
answer_raises ==
    /\ pc = "answer"
    /\ UNCHANGED collection
    /\ invoked' = invoked \cup {"answer_llm"}
    /\ context' = ContextOf(retrieved_documents)
    /\ UNCHANGED attempts
    /\ Abort("answer")

Next ==
    \/ ChatRetry
    \/ triage_node
    \/ triage_raises
    \/ Branch
    \/ out_of_scope_node
    \/ semantic_search_node
    \/ bm25_search_node
    \/ bm25_search_fails
    \/ merge_and_rerank_node
    \/ retrieval
    \/ generate_answer_node
    \/ answer_raises

Spec == Init /\ [][Next]_vars

(* The two search adapters on their own: semantic_search_node and
   bm25_search_node as functions of what the collection holds.  The run
   starts where the retrieval sub-graph is entered, with a collection of any
   stored metadata and any distances. *)

AdapterInit ==
    /\ pc = "semantic_search"
    /\ collection \in Collections
    /\ query_type = "DATA_QUESTION"
    /\ semantic_docs = <<>>
    /\ bm25_docs = <<>>
    /\ retrieved_documents = <<>>
    /\ answer = NoAnswer
    /\ attempts = 0
    /\ scores = <<>>
    /\ context = NoContext
    /\ visited = <<"triage", "retrieval", "semantic_search">>
    /\ invoked = {"triage_llm"}
    /\ error = "none"
    /\ bm25_failed = FALSE

AdapterNext ==
    \/ semantic_search_node
    \/ bm25_search_node
    \/ bm25_search_fails

AdapterSpec == AdapterInit /\ [][AdapterNext]_vars

-----------------------------------------------------------------------------
(* What the claims speak about.  Between merge_and_rerank_node and the     *)
(* return of the sub-graph (pc = "retrieval_end") the state holds the      *)
(* batch, the raw scores and the result together.  The document with oid i *)
(* is the i-th of the concatenated batch, so scores[d.oid] is its raw      *)
(* score.                                                                  *)

Merged == pc = "retrieval_end"

Reranked == Merged /\ "reranker" \in invoked

AllDocs == semantic_docs \o bm25_docs

RawScore(d) == scores[d.oid]

Oids(docs) == {docs[i].oid : i \in 1 .. Len(docs)}

\* The places in the batch of the documents that are not in the result, and
\* the places in the batch of the documents of the result, in result order.
LeftOut ==
    LET kept == Oids(retrieved_documents)
    IN  {i \in 1 .. Len(scores) : i \notin kept}

Kept == [i \in 1 .. Len(retrieved_documents) |-> retrieved_documents[i].oid]

AllEqual(sc) == \A i \in 1 .. Len(sc) : sc[i] = sc[1]

\* C1: merge_and_rerank_node returns exactly min(NR_FINAL_DOCS, n)
\* documents, n the number of candidates of both lists together: never
\* more than NR_FINAL_DOCS and never more than n.
C1_ResultLength ==
    Merged =>
        /\ Len(retrieved_documents) = MinOf(NR_FINAL_DOCS, Len(AllDocs))
        /\ Len(retrieved_documents) <= NR_FINAL_DOCS
        /\ Len(retrieved_documents) <= Len(semantic_docs) + Len(bm25_docs)

\* A batch larger than NR_FINAL_DOCS was cut to NR_FINAL_DOCS documents.
C1_Witness ==
    /\ Reranked
    /\ Len(AllDocs) > NR_FINAL_DOCS
    /\ Len(retrieved_documents) = NR_FINAL_DOCS

\* C2: the result is ordered by raw reranker score, non-increasing, every
\* returned document is a document of the batch, and no document left out
\* has a raw score greater than that of a returned one.
C2_RawScoreOrder ==
    Reranked =>
        LET all == AllDocs
            kept == Kept
            out == LeftOut
        IN  /\ \A i \in 1 .. Len(kept) :
                  /\ kept[i] \in 1 .. Len(all)
                  /\ retrieved_documents[i] = all[kept[i]]
            /\ \A i, j \in 1 .. Len(kept) :
                  i < j => scores[kept[i]] >= scores[kept[j]]
            /\ \A d \in out : \A i \in 1 .. Len(kept) :
                  scores[d] <= scores[kept[i]]

\* A batch with three different raw scores, in which a document was left
\* out whose score is smaller than that of a returned one, and the result
\* is not in input order.
C2_Witness ==
    /\ Reranked
    /\ Cardinality(Range(scores)) = 3
    /\ \E d \in LeftOut :
          scores[d] < RawScore(retrieved_documents[Len(retrieved_documents)])
    /\ \E i, j \in 1 .. Len(retrieved_documents) :
          i < j /\ retrieved_documents[i].oid > retrieved_documents[j].oid

\* C3: the sort is stable.  Documents with equal raw scores keep the order
\* of the concatenated batch (vector documents, then lexical documents), so
\* a lexical document precedes a vector one only with a greater score, and
\* of documents with equal scores the cut keeps the earlier ones.
C3_StableSort ==
    Reranked =>
        LET kept == Kept
            out == LeftOut
        IN  /\ \A i, j \in 1 .. Len(kept) :
                  (i < j /\ scores[kept[i]] = scores[kept[j]])
                      => kept[i] < kept[j]
            /\ \A i, j \in 1 .. Len(kept) :
                  (/\ i < j
                   /\ retrieved_documents[i].retrieval_method = "bm25"
                   /\ retrieved_documents[j].retrieval_method = "vector")
                      => scores[kept[i]] > scores[kept[j]]
            /\ \A d \in out : \A i \in 1 .. Len(kept) :
                  scores[d] = scores[kept[i]] => kept[i] < d

\* A vector and a lexical document with equal scores are both returned,
\* behind a document that came later in the batch, and a document with the
\* score of the last returned one was cut.
C3_Witness ==
    /\ Reranked
    /\ \E i, j \in 1 .. Len(retrieved_documents) :
          /\ i < j
          /\ retrieved_documents[i].retrieval_method = "vector"
          /\ retrieved_documents[j].retrieval_method = "bm25"
          /\ RawScore(retrieved_documents[i]) = RawScore(retrieved_documents[j])
    /\ retrieved_documents[1].oid > 1
    /\ \E d \in LeftOut :
          scores[d] = RawScore(retrieved_documents[Len(retrieved_documents)])

\* The sequences that begin sequence s.
IsPrefix(p, s) == Len(p) <= Len(s) /\ SubSeq(s, 1, Len(p)) = p

NoRepeats(s) == \A i, j \in 1 .. Len(s) : i # j => s[i] # s[j]

AllVector(docs) == \A i \in 1 .. Len(docs) : docs[i].retrieval_method = "vector"

\* C4: an error inside bm25_search_node is not propagated.  The step that
\* takes the except branch leaves bm25_docs empty and semantic_docs as it
\* was and hands over to merge_and_rerank with no error raised; from then on
\* the result holds vector documents only, min(NR_FINAL_DOCS, number of
\* vector candidates) of them, the run goes on to the answer node, and if it
\* is aborted at all, then by the reranker or the answer call, never by the
\* lexical search.
C4_Inv ==
    bm25_failed =>
        /\ bm25_docs = <<>>
        /\ error \in {"none", "reranker", "answer"}
        /\ pc \in {"merge_and_rerank", "retrieval_end", "answer", "END", "raised"}
        /\ AllVector(retrieved_documents)
        /\ Merged => /\ AllVector(AllDocs)
                     /\ Len(retrieved_documents)
                          = MinOf(NR_FINAL_DOCS, Len(semantic_docs))
                     /\ Oids(retrieved_documents) \subseteq Oids(semantic_docs)
        /\ pc = "END" => /\ "answer" \in Range(visited)
                         /\ "answer_llm" \in invoked
                         /\ answer \in AnswerTexts
        /\ pc = "raised" => error \in {"reranker", "answer"}

C4_Step ==
    (pc = "bm25_search" /\ bm25_failed') =>
        /\ bm25_docs' = <<>>
        /\ semantic_docs' = semantic_docs
        /\ pc' = "merge_and_rerank"
        /\ error' = "none"

C4_After ==
    (bm25_failed /\ pc \in {"merge_and_rerank", "retrieval_end"}) =>
        \/ pc' \in {"retrieval_end", "answer"}
        \/ pc' = "raised" /\ error' = "reranker"

C4_LexicalFailureTolerated == []C4_Inv /\ [][C4_Step /\ C4_After]_vars

\* The lexical search failed, the vector search had found more than one
\* document, and the run ended with an answer.
C4_Witness ==
    /\ bm25_failed
    /\ pc = "END"
    /\ Len(context) > 1
    /\ answer = "an answer"

\* C5: with query_type OUT_OF_SCOPE the run goes from triage to
\* out_of_scope and ends there with the fixed answer; no collaborator other
\* than the triage call is invoked and no other node is entered.
C5_OutOfScope ==
    query_type = "OUT_OF_SCOPE" =>
        /\ invoked = {"triage_llm"}
        /\ IsPrefix(visited, <<"triage", "out_of_scope">>)
        /\ pc \in {"branch", "out_of_scope", "END"}
        /\ error = "none"
        /\ semantic_docs = <<>> /\ bm25_docs = <<>> /\ scores = <<>>
        /\ pc = "END" => /\ answer = OUT_OF_SCOPE_MSG
                         /\ visited = <<"triage", "out_of_scope">>
        /\ pc # "END" => answer = NoAnswer

\* A run with the label OUT_OF_SCOPE has ended.
C5_Witness ==
    /\ query_type = "OUT_OF_SCOPE"
    /\ pc = "END"
    /\ answer = OUT_OF_SCOPE_MSG

Sinks == {"out_of_scope", "answer"}

KnownLabels == {"DATA_QUESTION", "OUT_OF_SCOPE"}

Ended == pc \in {"END", "raised"}

\* The run was ended by a collaborator that failed.
CollaboratorFailed == error \in {"triage", "vector_index", "reranker", "answer"}

SinksVisited == {v \in Range(visited) : v \in Sinks}

\* C6 as stated, for the runs in which no collaborator fails: whatever
\* label triage stored, no node is visited twice and the run ends at END
\* with exactly one of the two sink nodes visited.
C6_Original ==
    /\ NoRepeats(visited)
    /\ (Ended /\ ~CollaboratorFailed) =>
          /\ pc = "END"
          /\ Cardinality(SinksVisited) = 1

\* C6 as amended: no run visits a node twice or visits both sinks; the
\* label is stored as returned; a run that ends normally had one of the two
\* known labels and ended at the sink of that label; a run whose label is
\* neither of them is ended by the conditional edge, with an error, before
\* any node but triage is entered; and a run in which nothing fails and the
\* label is known ends at a sink.
C6_Amended ==
    /\ NoRepeats(visited)
    /\ Cardinality(SinksVisited) <= 1
    /\ query_type \in Labels \cup {NoLabel}
    /\ pc = "END" =>
          /\ query_type \in KnownLabels
          /\ visited[Len(visited)]
               = (IF query_type = "OUT_OF_SCOPE" THEN "out_of_scope" ELSE "answer")
          /\ Cardinality(SinksVisited) = 1
          /\ answer # NoAnswer
    /\ (query_type \notin KnownLabels \cup {NoLabel} /\ pc # "branch") =>
          /\ pc = "raised"
          /\ error = "branch"
          /\ visited = <<"triage">>
          /\ invoked = {"triage_llm"}
          /\ answer = NoAnswer
    /\ (Ended /\ ~CollaboratorFailed /\ query_type \in KnownLabels) => pc = "END"
    /\ error = "branch" => query_type \notin KnownLabels

\* Triage returned the empty string and the run was ended by the
\* conditional edge.
C6_Witness ==
    /\ query_type = ""
    /\ pc = "raised"
    /\ error = "branch"

\* C7: when both lists are empty, merge_and_rerank_node returns an empty
\* result and the reranker is not called (and it is called for every other
\* batch); the run goes on to the answer node, which calls the answer
\* collaborator with an empty context; no answer exists before that call
\* returns.
C7_EmptyBatch ==
    /\ Merged =>
          /\ (AllDocs = <<>>) <=> ("reranker" \notin invoked)
          /\ AllDocs = <<>> => retrieved_documents = <<>> /\ scores = <<>>
    /\ (query_type = "DATA_QUESTION" /\ "reranker" \notin invoked) =>
          /\ pc = "answer" => /\ retrieved_documents = <<>>
                              /\ error = "none"
          /\ pc \in {"retrieval_end", "answer"} => answer = NoAnswer
          /\ pc = "END" => /\ context = <<>>
                           /\ "answer_llm" \in invoked
                           /\ visited[Len(visited)] = "answer"
                           /\ answer \in AnswerTexts
          /\ pc = "raised" => error \in {"vector_index", "answer"}

C7_Step ==
    (Merged /\ AllDocs = <<>>) => (pc' = "answer" /\ error' = "none")

C7_NoData == []C7_EmptyBatch /\ [][C7_Step]_vars

\* Both searches ran and found nothing, and the answer call was made with
\* an empty context.
C7_Witness ==
    /\ pc = "END"
    /\ "bm25" \in invoked
    /\ ~bm25_failed
    /\ "reranker" \notin invoked
    /\ context = <<>>
    /\ answer = "an answer"

\* A run that a failing collaborator ended has no answer, and nothing
\* after the failing stage was entered or called.
AbortsAtStage ==
    (pc = "raised" /\ CollaboratorFailed) =>
        /\ answer = NoAnswer
        /\ error = "triage" =>
              /\ visited = <<"triage">>
              /\ invoked = {"triage_llm"}
        /\ error = "vector_index" =>
              /\ visited = <<"triage", "retrieval", "semantic_search">>
              /\ invoked = {"triage_llm", "vector_index"}
        /\ error = "reranker" =>
              /\ visited = <<"triage", "retrieval", "semantic_search",
                             "bm25_search", "merge_and_rerank">>
              /\ invoked = {"triage_llm", "vector_index", "bm25", "reranker"}
        /\ error = "answer" =>
              /\ visited[Len(visited)] = "answer"
              /\ "answer_llm" \in invoked

\* Nothing happens in a run after an exception has left the graph.
NoStepAfterRaise == pc # "raised"

\* C8 as stated: a failing collaborator ends the run at its stage with no
\* answer, nothing runs afterwards, and no call is ever tried again.
C8_Original ==
    /\ [](AbortsAtStage /\ NoRepeats(visited) /\ attempts = 0)
    /\ [][NoStepAfterRaise]_vars

\* C8 as amended: a failure that is raised ends the run at its stage with
\* no answer and nothing runs afterwards; the vector query and the reranker
\* are called once; a failing triage or answer call is tried again by the
\* chat client, at most MAX_RETRIES times, before the failure is raised.
C8_Amended ==
    /\ [](/\ AbortsAtStage
          /\ NoRepeats(visited)
          /\ attempts \in 0 .. MAX_RETRIES
          /\ attempts > 0 =>
                \/ pc \in {"triage", "answer"}
                \/ pc = "raised" /\ error \in {"triage", "answer"})
    /\ [][NoStepAfterRaise]_vars
    /\ [][attempts' > attempts =>
             /\ attempts' = attempts + 1
             /\ pc' = pc
             /\ pc \in {"triage", "answer"}
             /\ answer' = NoAnswer]_vars

\* The answer call failed MAX_RETRIES + 1 times and the run was aborted
\* after the reranker had run.
C8_Witness ==
    /\ pc = "raised"
    /\ error = "answer"
    /\ attempts = MAX_RETRIES
    /\ "reranker" \in invoked
    /\ answer = NoAnswer

Num(d) == d.crossencoder_score[1]

Den(d) == d.crossencoder_score[2]

Spread == SeqMax(scores) - SeqMin(scores)

\* 1 - Num(d) / Den(d) <= 1e-6
WithinEpsOfOne(d) == (Den(d) - Num(d)) * UNITS <= Den(d) * EPS

\* Every document of the batch has a normalised score in [0, 1], and the
\* documents of the result are documents of the batch.
NormalizedInUnitInterval ==
    LET all == AllDocs
        mn == SeqMin(scores)
    IN  /\ \A i \in 1 .. Len(all) :
              /\ Den(all[i]) > 0
              /\ 0 <= Num(all[i])
              /\ Num(all[i]) <= Den(all[i])
              /\ scores[i] = mn => Num(all[i]) = 0
        /\ \A i \in 1 .. Len(retrieved_documents) :
              retrieved_documents[i] = all[retrieved_documents[i].oid]

\* C9 as stated: for a batch whose raw scores are not all equal, every
\* normalised score is in [0, 1], the minimum gets exactly 0 and the
\* maximum gets 1.0 within 1e-6, whatever the spread.
C9_Original ==
    (Reranked /\ ~AllEqual(scores)) =>
        /\ NormalizedInUnitInterval
        /\ LET all == AllDocs
               mx == SeqMax(scores)
           IN  \A i \in 1 .. Len(all) :
                  scores[i] = mx => WithinEpsOfOne(all[i])

\* C9 as amended: every normalised score is (score - min) / (max - min +
\* 1e-6), in [0, 1]; the minimum gets exactly 0; the maximum gets
\* spread / (spread + 1e-6), which is within 1e-6 of 1.0 exactly when the
\* spread is at least 1 - 1e-6.
C9_Amended ==
    (Reranked /\ ~AllEqual(scores)) =>
        /\ NormalizedInUnitInterval
        /\ LET all == AllDocs
               mn == SeqMin(scores)
               mx == SeqMax(scores)
           IN  \A i \in 1 .. Len(all) :
                  /\ Num(all[i]) = scores[i] - mn
                  /\ Den(all[i]) = mx - mn + EPS
                  /\ scores[i] = mx =>
                        /\ Num(all[i]) = mx - mn
                        /\ WithinEpsOfOne(all[i]) <=> mx - mn >= UNITS - EPS

\* A batch with a spread of 1e-6: its best document is returned first with
\* the normalised score 1/2.
C9_Witness ==
    /\ Reranked
    /\ Spread = EPS
    /\ retrieved_documents[1].crossencoder_score = <<1, 2>>
    /\ RawScore(retrieved_documents[1]) = SeqMax(scores)

\* C10: when all raw scores of a batch are equal (a batch of one document
\* included), every document gets the normalised score 1/2, not the ratio
\* 0 / 1e-6, and the result is the first min(NR_FINAL_DOCS, n) documents of
\* the batch in input order.
C10_EqualScores ==
    (Reranked /\ AllEqual(scores)) =>
        /\ LET all == AllDocs
           IN  /\ \A i \in 1 .. Len(all) : all[i].crossencoder_score = <<1, 2>>
               /\ retrieved_documents
                    = SubSeq(all, 1, MinOf(NR_FINAL_DOCS, Len(all)))
        /\ \A i \in 1 .. Len(retrieved_documents) :
              /\ retrieved_documents[i].oid = i
              /\ retrieved_documents[i].crossencoder_score = <<1, 2>>

\* A batch of more than NR_FINAL_DOCS documents from both searches, all
\* with the same raw score.
C10_Witness ==
    /\ Reranked
    /\ AllEqual(scores)
    /\ Len(AllDocs) > NR_FINAL_DOCS
    /\ Len(bm25_docs) > 0
    /\ Len(retrieved_documents) = NR_FINAL_DOCS

\* A score <<num, den>> is a number of [0, 1].
InUnitInterval(f) == f[2] > 0 /\ 0 <= f[1] /\ f[1] <= f[2]

\* f < g, for scores with positive denominators
ScoreLess(f, g) == f[1] * g[2] < g[1] * f[2]

\* The searches have run, the lexical one without an error.
Searched == pc = "merge_and_rerank" /\ ~bm25_failed

\* C11: every document of either search has vector_score and bm25_score in
\* [0, 1].  The vector_score of a semantic result is max(0, 1 - d) for the
\* distance d of its chunk: 1 - d up to d = 1 and 0 from there on.  The
\* bm25_score of the lexical result at 0-indexed rank i of m is 1 - i / m:
\* 1 at the top rank and strictly less at every next rank.
C11_ScoresInUnitInterval ==
    /\ \A i \in 1 .. Len(semantic_docs) :
          LET d    == semantic_docs[i]
              dist == collection[d.page_content].distance
          IN  /\ InUnitInterval(d.vector_score)
              /\ InUnitInterval(d.bm25_score)
              /\ d.vector_score[2] = UNITS
              /\ dist <= UNITS => d.vector_score[1] = UNITS - dist
              /\ dist >= UNITS => d.vector_score[1] = 0
    /\ LET m == Len(bm25_docs)
       IN  \A j \in 1 .. m :
              LET d == bm25_docs[j]
              IN  /\ InUnitInterval(d.bm25_score)
                  /\ InUnitInterval(d.vector_score)
                  /\ d.bm25_score[1] * m = (m - (j - 1)) * d.bm25_score[2]
                  /\ j = 1 => d.bm25_score[1] = d.bm25_score[2]
                  /\ j > 1 => ScoreLess(d.bm25_score,
                                        bm25_docs[j - 1].bm25_score)

\* Both searches returned MaxRetrieved results; one semantic result is at a
\* distance below 1, one at a distance above 1, and one has stored metadata
\* with scores of its own.
C11_Witness ==
    /\ Searched
    /\ Len(semantic_docs) = MinOf(MaxRetrieved, NumChunks)
    /\ Len(bm25_docs) = MinOf(MaxRetrieved, NumChunks)
    /\ \E i, j, k \in 1 .. Len(semantic_docs) :
          /\ collection[semantic_docs[i].page_content].distance \in 1 .. UNITS - 1
          /\ collection[semantic_docs[j].page_content].distance > UNITS
          /\ collection[semantic_docs[k].page_content].metadata = ClashMeta
    /\ bm25_docs[1].page_content # 1

\* The document is tagged with the search that produced it, and its score
\* of the other search is 0.
TaggedVector(d) == d.retrieval_method = "vector" /\ d.bm25_score = <<0, 1>>

TaggedBm25(d) == d.retrieval_method = "bm25" /\ d.vector_score = <<0, 1>>

\* C12: every document of semantic_docs is tagged "vector" with bm25_score
\* 0 and every document of bm25_docs is tagged "bm25" with vector_score 0,
\* whatever the stored metadata of its chunk holds, and the documents of the
\* result keep their tags.  merge_and_rerank_node scores the concatenation
\* of the two lists entry by entry and drops nothing but what the slice to
\* NR_FINAL_DOCS drops: the result has min(NR_FINAL_DOCS, n) entries, each a
\* different entry of the batch, so a chunk that both searches returned is
\* two entries of the batch and, in a batch of at most NR_FINAL_DOCS, two
\* entries of the result.
C12_TagsAndNoDedup ==
    /\ \A i \in 1 .. Len(semantic_docs) : TaggedVector(semantic_docs[i])
    /\ \A j \in 1 .. Len(bm25_docs) : TaggedBm25(bm25_docs[j])
    /\ \A i \in 1 .. Len(retrieved_documents) :
          TaggedVector(retrieved_documents[i])
              \/ TaggedBm25(retrieved_documents[i])
    /\ Reranked =>
          LET all  == AllDocs
              n    == Len(all)
              kept == Kept
          IN  /\ Len(scores) = n
              /\ Len(kept) = MinOf(NR_FINAL_DOCS, n)
              /\ \A i \in 1 .. Len(kept) :
                    /\ retrieved_documents[i] = all[kept[i]]
                    /\ \A j \in 1 .. Len(kept) : i # j => kept[i] # kept[j]

\* A chunk whose stored metadata has a tag and scores of its own was
\* returned by both searches, in a batch of more than NR_FINAL_DOCS
\* documents, and holds two places of the result.
C12_Witness ==
    /\ Reranked
    /\ Len(AllDocs) > NR_FINAL_DOCS
    /\ \E i, j \in 1 .. Len(retrieved_documents) :
          LET a == retrieved_documents[i]
              b == retrieved_documents[j]
          IN  /\ a.page_content = b.page_content
              /\ collection[a.page_content].metadata = ClashMeta
              /\ a.retrieval_method = "vector"
              /\ b.retrieval_method = "bm25"

=============================================================================
